---- MODULE Spec2Model ----
(***************************************************************************)
(* A model of the display engine of recovery-ui (src/lcd.c): the display   *)
(* handle `struct lcd`, the operations on it declared in src/lcd.h, and    *)
(* the pixel buffer they read and write, byte by byte.                     *)
(*                                                                         *)
(* Conventions                                                             *)
(*  - A C `unsigned int` is held as its 32-bit two's-complement            *)
(*    representative in -2^31 .. 2^31-1 (the value u is held as u when     *)
(*    u < 2^31 and as u - 2^32 otherwise).  Sums, differences and small    *)
(*    products of representatives are the representatives of the wrapped   *)
(*    results; comparisons and divisions are done by ugt and udiv8, which  *)
(*    compare and divide the unsigned values.                              *)
(*  - The pixel buffers are functions from byte offsets to bytes; 16- and  *)
(*    32-bit pixels are stored least significant byte first.               *)
(*  - The transform flags are the `flags` parameter of fbdev_open          *)
(*    (lcd.c:363); the two callers in lcd.c pass 0, the panel orientation  *)
(*    of a build may pass any combination.                                 *)
(***************************************************************************)
EXTENDS Integers, Sequences, FiniteSets, TLC

VARIABLES
    lcd,      \* the display handle (struct lcd), meaningful when live # "absent"
    live,     \* "absent": no handle; "open"; "aborted": abort(); "fault": wild memcpy
    call,     \* the last call on the handle: its name, argument, result, the
              \* cursor before and after it and the pixel buffer before it
    prev,     \* the call before the last one
    trail,    \* the names of the last three calls, oldest first
    nops,     \* number of calls made on the handle
    os,       \* what the process holds from the system for the display: open
              \* file descriptors, mapped bytes, heap blocks
    ui        \* the state of recovery-ui.c: struct state and the line buffer of main

vars == <<lcd, live, call, prev, trail, nops, os, ui>>

----------------------------------------------------------------------------
(* Bounds of the model *)

MaxOps == 1

----------------------------------------------------------------------------
(* C arithmetic *)

\* signed division and remainder of C (truncation toward zero), b > 0
cdiv(a, b) == IF a >= 0 THEN a \div b ELSE -((-a) \div b)

cmod(a, b) == a - b * cdiv(a, b)

\* a > b on unsigned int, a and b given as representatives
ugt(a, b) == IF (a < 0) = (b < 0) THEN a > b ELSE a < 0

\* a / 8 on unsigned int, a given as a representative (2^32 / 8 = 536870912)
udiv8(a) == IF a >= 0 THEN a \div 8 ELSE 536870912 + (a \div 8)

\* bit i (0..31) of a 32-bit representative
Bit(v, i) == IF i = 31 THEN (IF v < 0 THEN 1 ELSE 0) ELSE (v \div (2 ^ i)) % 2

\* the 32-bit representative with the given bits (f : 0..31 -> {0,1})
RECURSIVE SumBits(_, _)
SumBits(f, i) == IF i < 0 THEN 0 ELSE f[i] * (2 ^ i) + SumBits(f, i - 1)

Word(f) == SumBits(f, 30) - f[31] * 1073741824 - f[31] * 1073741824

\* a | b on unsigned int
bor(a, b) == Word([i \in 0..31 |-> IF Bit(a, i) = 1 \/ Bit(b, i) = 1 THEN 1 ELSE 0])

\* a << n on unsigned int, 0 <= n < 32
shl(a, n) == Word([i \in 0..31 |-> IF i >= n THEN Bit(a, i - n) ELSE 0])

\* byte k (0..3) of a 32-bit representative
ByteOf(v, k) == (v \div (256 ^ k)) % 256

----------------------------------------------------------------------------
(* Flags, lcd.c:31-33 *)

LCD_REVERSE_X == 1
LCD_REVERSE_Y == 2
LCD_INV_AXIS == 4

\* lcd->flags & bit
HasFlag(L, bit) == (L.flags \div bit) % 2 = 1

----------------------------------------------------------------------------
(* The font: 256 glyphs of 6 column bytes, bit r of a column byte is row r. *)
(* The table itself (lcdfont.h) is data; the model uses a fixed table with  *)
(* set and clear bits in every glyph.                                       *)

lcdfont(i) == (i * 73 + (i \div 6) * 29 + 17) % 256

----------------------------------------------------------------------------
(* Geometry *)

lcd_width(L) == IF HasFlag(L, LCD_INV_AXIS) THEN L.height ELSE L.width

lcd_height(L) == IF HasFlag(L, LCD_INV_AXIS) THEN L.width ELSE L.height

lcd_scale_factor(L) == 1 + (L.height + 120) \div 240

lcd_font_width(L) == 6 * lcd_scale_factor(L)

lcd_font_height(L) == 8 * lcd_scale_factor(L)

\* lcd_x without the reversal
column_as_stored(L) == L.x

lcd_x(L) == IF HasFlag(L, LCD_REVERSE_X) THEN L.width - L.x - 1 ELSE L.x

lcd_y(L) == IF HasFlag(L, LCD_REVERSE_Y) THEN L.height - L.y - 1 ELSE L.y

lcd_valid_x(L) == L.x >= 0 /\ L.x < L.width

lcd_valid_y(L) == L.y >= 0 /\ L.y < L.height

lcd_valid_pos(L) == lcd_valid_x(L) /\ lcd_valid_y(L)

\* lcd_move_cursor without the exchange of the axes
move_cursor_upright(L, cols, rows) == [L EXCEPT !.x = L.x + cols, !.y = L.y + rows]

lcd_move_cursor(L, cols, rows) ==
    IF HasFlag(L, LCD_INV_AXIS)
    THEN [L EXCEPT !.x = L.x + rows, !.y = L.y + cols]
    ELSE [L EXCEPT !.x = L.x + cols, !.y = L.y + rows]

lcd_set_x(L, x) ==
    IF HasFlag(L, LCD_INV_AXIS) THEN [L EXCEPT !.y = x] ELSE [L EXCEPT !.x = x]

lcd_set_y(L, y) ==
    IF HasFlag(L, LCD_INV_AXIS) THEN [L EXCEPT !.x = y] ELSE [L EXCEPT !.y = y]

----------------------------------------------------------------------------
(* Pixel buffers *)

Peek(buf, i) == IF i \in DOMAIN buf THEN buf[i] ELSE 0

Poke(buf, i, b) == IF i \in DOMAIN buf THEN [buf EXCEPT ![i] = b] ELSE buf

\* the bytes of element k of the buffer viewed as n-byte elements
Slot(k, n) == {n * k + j : j \in 0..(n - 1)}

\* data16[k] = v, data32[k] = v: the low n bytes of v, least significant first
RECURSIVE Store(_, _, _, _, _)
Store(buf, k, n, v, j) ==
    IF j >= n THEN buf ELSE Store(Poke(buf, n * k + j, ByteOf(v, j)), k, n, v, j + 1)

\* data16[k] = background16[k], data32[k] = background32[k]
RECURSIVE CopySlot(_, _, _, _, _)
CopySlot(buf, k, n, src, j) ==
    IF j >= n THEN buf
    ELSE CopySlot(Poke(buf, n * k + j, Peek(src, n * k + j)), k, n, src, j + 1)

----------------------------------------------------------------------------
(* Rasterizer.  One step of the loops of lcd_putc_*bpp is: plot the pixel   *)
(* under the cursor when the position is valid, then move the cursor; a     *)
(* step returns the new buffer and the byte offsets it touched.             *)

data_index(L) == lcd_y(L) * L.stride + (lcd_x(L) * L.bpp) \div 8

\* lcd.c:261-268
plot_4bpp(L, font_index, row) ==
    LET hi  == (lcd_x(L) % 2) = 0
        di  == data_index(L)
        old == Peek(L.data, di)
        new == IF Bit(lcdfont(font_index), row) = 1
               THEN (IF hi THEN 240 + (old % 16) ELSE (old \div 16) * 16 + 15)
               ELSE (IF hi THEN old % 16 ELSE (old \div 16) * 16)
    IN  [data |-> Poke(L.data, di, new), acc |-> {di}]

\* lcd.c:287-293
plot_16bpp(L, font_index, row) ==
    LET s  == lcd_scale_factor(L)
        k  == data_index(L) \div 2
    IN  [data |-> IF Bit(lcdfont(font_index \div s), row \div s) = 1
                  THEN Store(L.data, k, 2, L.fgcolor, 0)
                  ELSE CopySlot(L.data, k, 2, L.background, 0),
         acc  |-> Slot(k, 2)]

\* lcd.c:312-318
plot_32bpp(L, font_index, row) ==
    LET s  == lcd_scale_factor(L)
        k  == data_index(L) \div 4
    IN  [data |-> IF Bit(lcdfont(font_index \div s), row \div s) = 1
                  THEN Store(L.data, k, 4, L.fgcolor, 0)
                  ELSE CopySlot(L.data, k, 4, L.background, 0),
         acc  |-> Slot(k, 4)]

plot(L, font_index, row) ==
    IF L.bpp = 4 THEN plot_4bpp(L, font_index, row)
    ELSE IF L.bpp = 16 THEN plot_16bpp(L, font_index, row)
    ELSE plot_32bpp(L, font_index, row)

\* one result of a loop: the handle and the byte offsets touched so far
Step(L, acc) == [lcd |-> L, acc |-> acc]

\* for (row = 0; row < font_height; row++), lcd.c:260-270
RECURSIVE row_loop(_, _, _)
row_loop(S, font_index, row) ==
    IF row >= lcd_font_height(S.lcd) THEN S
    ELSE LET L == S.lcd
             p == IF lcd_valid_pos(L)
                  THEN plot(L, font_index, row)
                  ELSE [data |-> L.data, acc |-> {}]
         IN  row_loop(Step(lcd_move_cursor([L EXCEPT !.data = p.data], 0, 1),
                           S.acc \cup p.acc),
                      font_index, row + 1)

\* for (column = 0; column < font_width; column++), lcd.c:259-274
RECURSIVE column_loop(_, _, _)
column_loop(S, c, column) ==
    IF column >= lcd_font_width(S.lcd) THEN S
    ELSE LET R == row_loop(S, c * lcd_font_width(S.lcd) + column, 0)
             L == lcd_move_cursor(lcd_move_cursor(R.lcd, 0, -lcd_font_height(R.lcd)), 1, 0)
         IN  column_loop(Step(L, R.acc), c, column + 1)

putc_loop(L, c) == column_loop(Step(L, {}), c, 0)

lcd_putc_4bpp(L, c) == putc_loop(L, c)

lcd_putc_16bpp(L, c) == putc_loop(L, c)

lcd_putc_32bpp(L, c) == putc_loop(L, c)

\* lcd_putc: the result, or abort() for a depth other than 4, 16, 32
lcd_putc(L, c) ==
    IF L.bpp = 4 THEN lcd_putc_4bpp(L, c) @@ [abort |-> FALSE]
    ELSE IF L.bpp = 16 THEN lcd_putc_16bpp(L, c) @@ [abort |-> FALSE]
    ELSE IF L.bpp = 32 THEN lcd_putc_32bpp(L, c) @@ [abort |-> FALSE]
    ELSE [lcd |-> L, acc |-> {}, abort |-> TRUE]

\* lcd_puts: str is the string with its terminating 0
RECURSIVE lcd_puts(_, _, _)
lcd_puts(L, str, acc) ==
    IF Head(str) = 0 THEN [lcd |-> L, acc |-> acc, abort |-> FALSE]
    ELSE \* r is the result of the one lcd_putc call of this round
         CHOOSE v \in {IF r.abort THEN r
                       ELSE lcd_puts(r.lcd, Tail(str), acc \cup r.acc) :
                       r \in {lcd_putc(L, Head(str))}} : TRUE

----------------------------------------------------------------------------
(* Background/clear engine *)

\* lcd_blit(lcd, lcd->data, lcd->background, &rect).  rect.x, rect.y are int,
\* rect.width, rect.height are unsigned int.  The result names the rectangle
\* after the reversal (rect0), after the clipping (rect), the memcpy calls
\* made ([off, len], one per row) and whether every one of them stays inside
\* the two buffers.
lcd_blit(L, r) ==
    LET x0 == IF HasFlag(L, LCD_REVERSE_X) THEN L.width - r.x - r.width ELSE r.x
        y0 == IF HasFlag(L, LCD_REVERSE_Y) THEN L.height - r.y - r.height ELSE r.y
        w1 == IF x0 < 0 THEN r.width + x0 ELSE r.width
        x1 == IF x0 < 0 THEN 0 ELSE x0
        h1 == IF y0 < 0 THEN r.height + y0 ELSE r.height
        y1 == IF y0 < 0 THEN 0 ELSE y0
        w2 == IF ugt(x1 + w1, L.width) THEN L.width - x1 ELSE w1
        h2 == IF ugt(y1 + h1, L.height) THEN L.height - y1 ELSE h1
        \* if (rect->width <= 0) return;  -- an unsigned comparison
        end == y1 + h2
        rows == IF w2 = 0 THEN {} ELSE {y \in 0..L.height : y1 <= y /\ ugt(end, y)}
        runaway == w2 # 0 /\ ugt(end, L.height) /\ ugt(end, y1)
        copies == {[off |-> L.stride * y + udiv8(x1 * L.bpp),
                    len |-> udiv8(w2 * L.bpp)] : y \in rows}
        inside == ~runaway /\ \A m \in copies : m.off >= 0 /\ m.off + m.len <= L.size
    IN  [rect0  |-> [x |-> x0, y |-> y0, width |-> r.width, height |-> r.height],
         rect   |-> [x |-> x1, y |-> y1, width |-> w2, height |-> h2],
         copies |-> copies,
         inside |-> inside,
         data   |-> [i \in {j \in DOMAIN L.data :
                                  \E m \in copies : m.off <= j /\ j < m.off + m.len} |->
                        Peek(L.background, i)] @@ L.data]

\* the rectangle of lcd_clear, started at the column of the cursor
clear_rect_at_cursor(L, lines) ==
    IF HasFlag(L, LCD_INV_AXIS)
    THEN [x |-> L.x, y |-> 0, width |-> lines, height |-> L.height]
    ELSE [x |-> L.x, y |-> L.y, width |-> L.width, height |-> lines]

\* lcd_clear(lcd, lines): the rectangle it hands to lcd_blit
clear_rect(L, lines) ==
    IF HasFlag(L, LCD_INV_AXIS)
    THEN [x |-> L.x, y |-> 0, width |-> lines, height |-> L.height]
    ELSE [x |-> 0, y |-> L.y, width |-> L.width, height |-> lines]

lcd_clear(L, lines) == lcd_blit(L, clear_rect(L, lines))

lcd_save_background(L) == [L EXCEPT !.background = L.data]

----------------------------------------------------------------------------
(* Linear addressing *)

SEEK_SET == 0
SEEK_CUR == 1
SEEK_END == 2

\* the switch on whence: the cursor the offset is counted from
seek_keep_column(L, whence) ==
    <<L.x, IF whence = SEEK_SET THEN 0 ELSE IF whence = SEEK_END THEN L.height ELSE L.y>>

seek_origin(L, whence) ==
    IF whence = SEEK_SET THEN <<0, 0>>
    ELSE IF whence = SEEK_END THEN <<0, L.height>>
    ELSE <<L.x, L.y>>

\* the byte offset returned for the cursor (x, y)
seek_width_rows(L, x, y) == L.width * y + udiv8(x * L.bpp)

seek_offset(L, x, y) == L.stride * y + udiv8(x * L.bpp)

\* lcd_seek: the handle with the new cursor, and the returned byte offset.
\* off_t is 64 bits wide; lcd->y * lcd->width + lcd->x is an unsigned int and
\* is taken here where it does not wrap (the cursor counted from lies at or
\* after the first pixel)
lcd_seek(L, offset, whence) ==
    LET pixels == cdiv(offset * 8, L.bpp)
        from == seek_origin(L, whence)
        t  == pixels + (from[2] * L.width + from[1])
        x  == cmod(t, L.width)
        y  == cdiv(t, L.width)
    IN  [lcd |-> [L EXCEPT !.x = x, !.y = y],
         ret |-> seek_offset(L, x, y)]

----------------------------------------------------------------------------
(* Colour resolver *)

\* ((argb >> sh) & 0xff) >> (8 - ch.size), 0 <= ch.size <= 8
component(argb, sh, ch) == (((argb \div (2 ^ sh)) % 256) \div (2 ^ (8 - ch.size)))

\* bswap_16 of the low 16 bits
bswap_16(v) == ByteOf(v, 0) * 256 + ByteOf(v, 1)

\* the components shifted to their channels
native_colour(L, argb) ==
    LET a == component(argb, 24, L.alpha)
        r == component(argb, 16, L.red)
        g == component(argb, 8, L.green)
        b == component(argb, 0, L.blue)
    IN  bor(bor(shl(a, L.alpha.offset), shl(r, L.red.offset)),
            bor(shl(g, L.green.offset), shl(b, L.blue.offset)))

\* lcd_set_fgcolor without the byte swap
set_fgcolor_host_order(L, argb) == [L EXCEPT !.fgcolor = native_colour(L, argb)]

lcd_set_fgcolor(L, argb) ==
    LET v == native_colour(L, argb)
    IN  [L EXCEPT !.fgcolor = IF L.byteswap /\ L.bpp = 16 THEN bswap_16(v) ELSE v]

----------------------------------------------------------------------------
(* Logo *)

\* lcd_get_logo_size: <<width, height>>
lcd_get_logo_size(L) ==
    IF L.bpp = 4 THEN <<128, 8>>
    ELSE IF L.width = 400 /\ L.height = 240 /\ L.bpp = 16 THEN <<400, 240>>
    ELSE IF L.bpp >= 16 THEN <<96 * lcd_scale_factor(L), 7 * lcd_scale_factor(L)>>
    ELSE <<0, 0>>

\* The logo bitmaps (lcdlogo_*.h) are data; the model uses fixed tables with
\* set and clear bits in every row.  Byte i of the named array:
logo_byte(name, i) ==
    IF name = "lcdlogo_96x7_mono" THEN (i * 89 + (i \div 12) * 31 + 5) % 256
    ELSE IF name = "lcdlogo_128x8_gray4" THEN (i * 61 + 3) % 256
    ELSE (i * 43 + 9) % 256

\* lcd_write(lcd, buf, count), buf a function on 0..count-1.  offset + count
\* is compared as an unsigned 64-bit number, so a negative offset exceeds
\* lcd->size.  acc is the set of byte offsets the memcpy writes.
lcd_write(L, buf, count) ==
    LET sk     == lcd_seek(L, 0, SEEK_CUR)
        offset == sk.ret
        n      == IF offset < 0 \/ offset + count > L.size
                  THEN L.size - offset ELSE count
        span   == IF n >= 0 THEN offset..(offset + n - 1) ELSE {}
    IN  [lcd |-> [sk.lcd EXCEPT !.data =
                     [i \in span \cap DOMAIN L.data |-> buf[i - offset]] @@ @],
         acc |-> span,
         ret |-> IF n >= 0 THEN n ELSE -1]

\* byte n of the array logo[] that lcd_write_logo fills: every bit of
\* lcd->logo, most significant first, as scale_factor pixels of lcd->bpp bits
scaled_logo(L, n) ==
    LET bytes == L.bpp \div 8
        q     == (n \div bytes) \div lcd_scale_factor(L)
        pixel == IF Bit(logo_byte(L.logo, q \div 8), 7 - (q % 8)) = 1
                 THEN L.fgcolor ELSE 0
    IN  ByteOf(pixel, n % bytes)

\* for (i = 0; i < 7; i++) for (j = 0; j < scale_factor; j++), counted by
\* n = i * scale_factor + j: lcd_write of row i, then lcd_seek by one stride
RECURSIVE logo_rows(_, _)
logo_rows(S, n) ==
    LET L     == S.lcd
        s     == lcd_scale_factor(L)
        count == 96 * (L.bpp \div 8) * s
        first == (n \div s) * count
    IN  IF n >= 7 * s THEN S
        ELSE LET w == lcd_write(L, [k \in 0..(count - 1) |-> scaled_logo(L, first + k)],
                                count)
             IN  logo_rows(Step(lcd_seek(w.lcd, L.stride, SEEK_CUR).lcd,
                                S.acc \cup w.acc),
                           n + 1)

\* lcd_write_logo: the handle and the byte offsets written
lcd_write_logo(L) ==
    IF L.logo = "none" \/ L.logo_size = 0 THEN Step(L, {})
    ELSE IF L.bpp = 16 /\ (L.width # 400 \/ L.height # 240) THEN logo_rows(Step(L, {}), 0)
    ELSE IF L.bpp = 32 THEN logo_rows(Step(L, {}), 0)
    ELSE LET w == lcd_write(L, [k \in 0..(L.logo_size - 1) |-> logo_byte(L.logo, k)],
                            L.logo_size)
         IN  Step(w.lcd, w.acc)

----------------------------------------------------------------------------
(* Opening a display *)

Channel(offset, size) == [offset |-> offset, size |-> size]

\* contents of memory the program did not write: image 0 is all zero
Image(n, size) == [i \in 0..(size - 1) |-> IF n = 0 THEN 0 ELSE (i * 37 + 11 * n) % 256]

\* fbdev_open(device, flags, mapped) when every system call succeeds.  hw is
\* what FBIOGET_VSCREENINFO and FBIOGET_FSCREENINFO report, image the present
\* contents of the mapped memory.  0xffffffff is held as -1.
fbdev_open(hw, flags, mapped, image) ==
    LET line_length == IF (hw.xres * hw.bits_per_pixel) \div 8 > hw.line_length
                       THEN (hw.xres * hw.bits_per_pixel) \div 8
                       ELSE hw.line_length
        size == line_length * hw.yres
    IN  [type |-> "none", width |-> hw.xres, height |-> hw.yres,
         bpp |-> hw.bits_per_pixel, stride |-> line_length, size |-> size,
         x |-> 0, y |-> 0,
         data |-> IF mapped THEN Image(image, size) ELSE Image(0, size),
         mapped |-> mapped, flags |-> flags,
         background |-> Image(0, size), fgcolor |-> -1,
         logo |-> "none", logo_size |-> 0,
         red |-> hw.red, green |-> hw.green, blue |-> hw.blue, alpha |-> hw.transp,
         byteswap |-> FALSE]

\* strings are sequences of characters; a missing file is the empty sequence
RGB_565_ == <<"R", "G", "B", "_", "5", "6", "5", "_">>

\* stb_lcd_open(device): cfg is what the files under /proc/stb/lcd hold, image
\* the contents of the pixel buffer malloc returned (it is not cleared)
stb_lcd_open(cfg, image) ==
    LET stride == (cfg.xres * cfg.bpp) \div 8
        size == stride * cfg.yres
        fmt == cfg.colorformat
        rgb == Len(fmt) >= 8 /\ SubSeq(fmt, 1, 8) = RGB_565_
        none == Channel(0, 0)
    IN  [type |-> "none", width |-> cfg.xres, height |-> cfg.yres,
         bpp |-> cfg.bpp, stride |-> stride, size |-> size,
         x |-> 0, y |-> 0,
         data |-> Image(image, size),
         mapped |-> FALSE, flags |-> 0,
         background |-> Image(0, size), fgcolor |-> -1,
         logo |-> "none", logo_size |-> 0,
         red |-> IF rgb THEN Channel(0, 5)
                 ELSE IF cfg.bpp = 16 THEN Channel(11, 5) ELSE none,
         green |-> IF rgb \/ cfg.bpp = 16 THEN Channel(5, 6) ELSE none,
         blue |-> IF rgb THEN Channel(11, 5)
                  ELSE IF cfg.bpp = 16 THEN Channel(0, 5) ELSE none,
         alpha |-> none,
         byteswap |-> rgb /\ Len(fmt) >= 9 /\ fmt[9] = "B"]

\* display_open: lcd_open or hdmi_open gave the handle L; choose the logo.
\* sizeof(lcdlogo_128x8_gray4) = 128 * 8 / 2, sizeof(lcdlogo_96x7_mono) = 96 * 7 / 8
display_open(type, L) ==
    LET sel == IF L.width = 128 /\ L.bpp = 4
                   THEN <<"lcdlogo_128x8_gray4", 512>>
               ELSE IF L.width = 400 /\ L.height = 240 /\ L.bpp = 16
                   THEN <<"lcdlogo_400x240_rgb565", 192000>>
               ELSE IF L.width >= L.height
                   THEN <<"lcdlogo_96x7_mono", 84>>
               ELSE <<"none", 0>>
    IN  [L EXCEPT !.type = type, !.logo = sel[1], !.logo_size = sel[2]]

----------------------------------------------------------------------------
(* What an open display holds: the descriptor of the device, the bytes of    *)
(* the framebuffer that are mapped, and heap blocks ("buffer": the private   *)
(* copy of a framebuffer that is not mapped, "lcd": struct lcd with the      *)
(* buffers allocated behind it).                                             *)

NoResources == [fds |-> {}, mapped |-> 0, heap |-> {}]

\* the system calls of hdmi_open and fbdev_open that can fail, in order
HdmiSteps == <<"hdmi open tty", "hdmi KDSETMODE">>

FbSteps == <<"open tty", "KDSETMODE", "open", "FBIOGET_VSCREENINFO",
             "FBIOGET_FSCREENINFO", "FBIOBLANK", "buffer", "lcd">>

\* what is held when fbdev_open returns, `fail` being the step that failed
\* ("none": it returned a handle).  Every failure closes the descriptor it
\* has; a failure of the last malloc also gives the buffer back, unmapping
\* `size` = line_length * yres bytes of the line_length * yres_virtual mapped
fbdev_open_held(hw, yres_virtual, mapped, fail) ==
    LET line_length == IF (hw.xres * hw.bits_per_pixel) \div 8 > hw.line_length
                       THEN (hw.xres * hw.bits_per_pixel) \div 8
                       ELSE hw.line_length
        size == line_length * hw.yres
        whole == line_length * yres_virtual
    IN  IF fail = "none"
        THEN [fds |-> {"dev"},
              mapped |-> IF mapped THEN whole ELSE 0,
              heap |-> IF mapped THEN {"lcd"} ELSE {"buffer", "lcd"}]
        ELSE IF fail = "lcd" /\ mapped
        THEN [fds |-> {}, mapped |-> whole - size, heap |-> {}]
        ELSE NoResources

\* what is held when stb_lcd_open returns; the steps are "open" and "lcd"
stb_lcd_open_held(fail) ==
    IF fail = "none" THEN [fds |-> {"dev"}, mapped |-> 0, heap |-> {"lcd"}]
    ELSE NoResources

\* lcd_release: close(lcd->fd), free(lcd)
lcd_release(held) == [held EXCEPT !.fds = @ \ {"dev"}, !.heap = @ \ {"lcd"}]

----------------------------------------------------------------------------
(* Presenting the buffer *)

\* lcd_update.  ret is what write() returns for the `size` bytes, ndebug
\* whether the build defines NDEBUG (assert compiled out).  The result names
\* the lengths of the writes issued, the value returned and whether the
\* process aborted instead of returning.
lcd_update(L, ret, ndebug) ==
    IF L.mapped
    THEN [writes |-> <<>>, value |-> TRUE, abort |-> FALSE]
    ELSE IF ~ndebug /\ ret # L.size
    THEN [writes |-> <<L.size>>, value |-> FALSE, abort |-> TRUE]
    ELSE [writes |-> <<L.size>>, value |-> (ret >= 0 /\ ret = L.size), abort |-> FALSE]

----------------------------------------------------------------------------
(* Records of the calls made *)

NoBlit == [rect0 |-> [x |-> 0, y |-> 0, width |-> 0, height |-> 0],
           rect |-> [x |-> 0, y |-> 0, width |-> 0, height |-> 0],
           copies |-> {}, inside |-> TRUE]

\* the call `name(arg)` took the handle from L0 to L1
Rec(name, arg, L0, L1, ret, blit, acc) ==
    [name |-> name, arg |-> arg,
     x0 |-> L0.x, y0 |-> L0.y, data0 |-> L0.data, fg0 |-> L0.fgcolor,
     x1 |-> L1.x, y1 |-> L1.y,
     ret |-> ret, blit |-> blit, acc |-> acc]

NoLcd == fbdev_open([xres |-> 0, yres |-> 0, bits_per_pixel |-> 0, line_length |-> 0,
                     red |-> Channel(0, 0), green |-> Channel(0, 0),
                     blue |-> Channel(0, 0), transp |-> Channel(0, 0)], 0, FALSE, 0)

NoCall == Rec("none", 0, NoLcd, NoLcd, 0, NoBlit, {})

\* the call r is recorded
Note(r) ==
    /\ call' = r
    /\ prev' = call
    /\ trail' = <<trail[2], trail[3], r.name>>
    /\ nops' = nops + 1

\* a call that acquires and releases nothing and is made on the handle alone
Record(r) ==
    /\ Note(r)
    /\ UNCHANGED <<os, ui>>

\* recovery-ui.c before main has set anything up
NoUi == [count |-> 0, incr |-> 0, timer |-> 0, family |-> "AF_UNSPEC", host |-> <<>>,
         pos |-> 0, linebuf |-> <<>>, last |-> "indeterminate",
         stream |-> <<>>, delivered |-> <<>>, dropped |-> FALSE]

Init ==
    /\ lcd = NoLcd
    /\ live = "absent"
    /\ call = NoCall
    /\ prev = NoCall
    /\ trail = <<"none", "none", "none">>
    /\ nops = 0
    /\ os = NoResources
    /\ ui = NoUi

----------------------------------------------------------------------------
(* Inputs: what the devices report, and the arguments of the calls *)

FbMode(xres, yres, bpp, line_length, r, g, b, a) ==
    [xres |-> xres, yres |-> yres, bits_per_pixel |-> bpp, line_length |-> line_length,
     red |-> r, green |-> g, blue |-> b, transp |-> a]

Gray4(xres, yres, ll) ==
    FbMode(xres, yres, 4, ll, Channel(0, 4), Channel(0, 4), Channel(0, 4), Channel(0, 0))

Rgb565(xres, yres, ll) ==
    FbMode(xres, yres, 16, ll, Channel(11, 5), Channel(5, 6), Channel(0, 5), Channel(0, 0))

Argb8888(xres, yres, ll) ==
    FbMode(xres, yres, 32, ll, Channel(16, 8), Channel(8, 8), Channel(0, 8), Channel(24, 8))

Setup(hw, flags, mapped) == [hw |-> hw, flags |-> flags, mapped |-> mapped]

\* framebuffers drawn on: one per depth, small enough to clip a glyph on
\* every side, one of them with row padding
SmallModes == { Gray4(8, 10, 4), Rgb565(7, 9, 16), Argb8888(3, 4, 12) }

\* tall enough for scale factor 2
TallModes == { Rgb565(1, 120, 2), Gray4(2, 120, 1) }

\* every orientation of every depth on mapped memory (which holds an image
\* when it is opened), private buffers (zeroed), a driver that reports a
\* stride smaller than a row, and the tall panels upright and turned
DrawSetups ==
    {Setup(hw, f, TRUE) : hw \in SmallModes, f \in 0..7}
    \cup {Setup(hw, 0, FALSE) : hw \in SmallModes \cup {Rgb565(4, 3, 2)}}
    \cup {Setup(hw, f, TRUE) : hw \in TallModes, f \in {0, LCD_INV_AXIS}}

\* what the files under /proc/stb/lcd hold
Panel(xres, yres, bpp, colorformat) ==
    [xres |-> xres, yres |-> yres, bpp |-> bpp, colorformat |-> colorformat]

\* the panel assumed when the files are missing, and a 4-bit panel with an
\* odd number of pixels in a row
DrawPanels == { Panel(128, 64, 4, <<>>), Panel(7, 2, 4, <<>>) }

\* contents of mapped memory and of a buffer malloc returned
Images == {1}

\* arguments of lcd_set_x and of lcd_set_y (n is the logical height)
XCoords == {-2}

YCoords(n) == {-2, 1, n + 1}

Chars == {65}

\* arguments of lcd_puts, with the terminating 0
Strings == {<<79, 75, 0>>}

Lines(L) == {1}

----------------------------------------------------------------------------
(* The calls *)

\* display_open(DISPLAY_TYPE_HDMI) maps /dev/fb0, display_open(DISPLAY_TYPE_OLED)
\* reads /dev/fb3 into a private buffer
OpenFb(setups) ==
    /\ live = "absent"
    /\ \E s \in setups, image \in Images :
          /\ lcd' = display_open(IF s.mapped THEN "HDMI" ELSE "OLED",
                                 fbdev_open(s.hw, s.flags, s.mapped, image))
          /\ os' = fbdev_open_held(s.hw, s.hw.yres, s.mapped, "none")
    /\ live' = "open"
    /\ UNCHANGED <<call, prev, trail, nops, ui>>

\* display_open(DISPLAY_TYPE_OLED) with /dev/dbox/oled0 or /dev/dbox/lcd0
OpenStb(panels) ==
    /\ live = "absent"
    /\ \E cfg \in panels, image \in Images :
          lcd' = display_open("OLED", stb_lcd_open(cfg, image))
    /\ os' = stb_lcd_open_held("none")
    /\ live' = "open"
    /\ UNCHANGED <<call, prev, trail, nops, ui>>

SetX ==
    /\ live = "open"
    /\ nops < MaxOps
    /\ \E x \in XCoords : lcd' = lcd_set_x(lcd, x)
    /\ UNCHANGED <<live, call, prev, trail, nops, os, ui>>

SetY ==
    /\ live = "open"
    /\ nops < MaxOps
    /\ \E y \in YCoords(lcd_height(lcd)) : lcd' = lcd_set_y(lcd, y)
    /\ UNCHANGED <<live, call, prev, trail, nops, os, ui>>

\* the outcome r of lcd_putc or lcd_puts
Drawn(name, arg, r) ==
    IF r.abort
    THEN /\ live' = "aborted"
         /\ lcd' = lcd
         /\ Record(Rec(name, arg, lcd, lcd, 0, NoBlit, {}))
    ELSE /\ live' = IF r.acc \subseteq 0..(lcd.size - 1) THEN "open" ELSE "fault"
         /\ lcd' = r.lcd
         /\ Record(Rec(name, arg, lcd, r.lcd, 0, NoBlit, r.acc))

Putc ==
    /\ live = "open"
    /\ nops < MaxOps
    /\ \E c \in Chars : Drawn("putc", c, lcd_putc(lcd, c))

Puts ==
    /\ live = "open"
    /\ nops < MaxOps
    /\ \E str \in Strings : Drawn("puts", str, lcd_puts(lcd, str, {}))

\* the outcome of lcd_clear(lcd, lines).  A memcpy that leaves the buffers is
\* undefined: the process may die before or after the bytes inside them are
\* copied
Cleared(lines) ==
    LET b == lcd_clear(lcd, lines)
        blit == [rect0 |-> b.rect0, rect |-> b.rect,
                 copies |-> b.copies, inside |-> b.inside]
    IN  \E d \in (IF b.inside THEN {b.data} ELSE {b.data, lcd.data}) :
           /\ lcd' = [lcd EXCEPT !.data = d]
           /\ live' = IF b.inside THEN "open" ELSE "fault"
           /\ Record(Rec("clear", lines, lcd, lcd', 0, blit, {}))

Clear ==
    /\ live = "open"
    /\ nops < MaxOps
    /\ \E lines \in Lines(lcd) : Cleared(lines)

\* the outcome of lcd_save_background(lcd)
Saved ==
    /\ lcd' = lcd_save_background(lcd)
    /\ live' = live
    /\ Record(Rec("save_background", 0, lcd, lcd', 0, NoBlit, {}))

SaveBackground ==
    /\ live = "open"
    /\ nops < MaxOps
    /\ Saved

Next ==
    \/ OpenFb(DrawSetups)
    \/ OpenStb(DrawPanels)
    \/ SetX
    \/ SetY
    \/ Putc
    \/ Puts
    \/ Clear
    \/ SaveBackground

Spec == Init /\ [][Next]_vars

----------------------------------------------------------------------------
(* Linear addressing: lcd_seek from cursors set by lcd_set_x, lcd_set_y and  *)
(* by earlier seeks, as lcd_write_logo does (lcd.c:716-766).                 *)

MaxSeeks == 1

\* a padded row at 16 and 32 bits, and 4-bit rows of even and odd width
SeekSetups == { Setup(hw, 0, FALSE) : hw \in {Gray4(4, 3, 2), Rgb565(3, 3, 8), Argb8888(2, 3, 8)} }

SeekPanels == { Panel(100, 64, 4, <<>>), Panel(7, 2, 4, <<>>) }

SeekCols == {-1, 1}

SeekRows == {1}

\* byte offsets handed to lcd_seek
Offsets == {-4, -3, 0, 1, 5}

SeekSetX ==
    /\ live = "open"
    /\ nops = 0
    /\ \E x \in SeekCols : lcd' = lcd_set_x(lcd, x)
    /\ UNCHANGED <<live, call, prev, trail, nops, os, ui>>

SeekSetY ==
    /\ live = "open"
    /\ nops = 0
    /\ \E y \in SeekRows : lcd' = lcd_set_y(lcd, y)
    /\ UNCHANGED <<live, call, prev, trail, nops, os, ui>>

Seek ==
    /\ live = "open"
    /\ nops < MaxSeeks
    /\ \E offset \in Offsets, whence \in {SEEK_SET, SEEK_CUR, SEEK_END} :
          /\ whence = SEEK_CUR => lcd.y * lcd.width + lcd.x >= 0
          /\ LET r == lcd_seek(lcd, offset, whence)
             IN  /\ lcd' = r.lcd
                 /\ live' = live
                 /\ Record(Rec("seek", <<offset, whence>>, lcd, r.lcd, r.ret, NoBlit, {}))

NextSeek ==
    \/ OpenFb(SeekSetups)
    \/ OpenStb(SeekPanels)
    \/ SeekSetX
    \/ SeekSetY
    \/ Seek

SpecSeek == Init /\ [][NextSeek]_vars

----------------------------------------------------------------------------
(* Colours: lcd_set_fgcolor on displays of every pixel format the open       *)
(* functions produce.                                                        *)

MaxColors == 2

\* framebuffers: RGB565, ARGB8888, ARGB1555 and a 4-bit gray scale whose
\* three colour channels are the same four bits
ColorSetups ==
    { Setup(hw, 0, FALSE) :
        hw \in { Rgb565(1, 1, 2), Argb8888(1, 1, 4), Gray4(2, 1, 1),
                 FbMode(1, 1, 16, 2, Channel(10, 5), Channel(5, 5), Channel(0, 5), Channel(15, 1)) } }

\* panels: no colorformat file, RGB_565_LE, RGB_565_BE (bytes swapped), a
\* format that is not RGB_565_*, RGB_565_BE on a 32-bit panel, a 4-bit panel
ColorPanels ==
    { Panel(1, 1, 16, <<>>),
      Panel(1, 1, 16, RGB_565_ \o <<"L", "E">>),
      Panel(1, 1, 16, RGB_565_ \o <<"B", "E">>),
      Panel(1, 1, 16, <<"B", "G", "R">>),
      Panel(1, 1, 32, RGB_565_ \o <<"B", "E">>),
      Panel(2, 1, 4, <<>>) }

\* ARGB values: 0xffffd200, 0x00ff0000, 0x12345678, 0x80402010, 0, 0xffffffff
Colors == {-11776, 16711680, 305419896, -2143281136, 0, -1}

SetFgcolor ==
    /\ live = "open"
    /\ nops < MaxColors
    /\ \E argb \in Colors :
          /\ lcd' = lcd_set_fgcolor(lcd, argb)
          /\ live' = live
          /\ Record(Rec("set_fgcolor", argb, lcd, lcd', 0, NoBlit, {}))

NextColor ==
    \/ OpenFb(ColorSetups)
    \/ OpenStb(ColorPanels)
    \/ SetFgcolor

SpecColor == Init /\ [][NextColor]_vars

----------------------------------------------------------------------------
(* The logo: display_open chooses it, lcd_get_logo_size reports its size.    *)

Gray8(xres, yres, ll) ==
    FbMode(xres, yres, 8, ll, Channel(0, 8), Channel(0, 8), Channel(0, 8), Channel(0, 0))

\* framebuffers of every depth, wider than high and higher than wide, and
\* the 128-pixel 4-bit row of the gray logo, in every orientation
LogoSetups ==
    { Setup(hw, f, FALSE) :
        hw \in { Rgb565(3, 4, 6), Rgb565(4, 3, 8), Argb8888(2, 3, 8), Argb8888(3, 2, 12),
                 Gray4(128, 8, 64), Gray4(4, 3, 2), Gray4(2, 4, 1),
                 Gray8(4, 3, 4), Gray8(3, 4, 3), Rgb565(1, 120, 2) },
        f \in 0..7 }

\* panels: the one assumed when the files are missing, the 400 x 240 panel of
\* the RGB565 logo, and a square panel with scale factor 2
LogoPanels == { Panel(128, 64, 4, <<>>), Panel(400, 240, 16, <<>>), Panel(120, 120, 16, <<>>) }

GetLogoSize ==
    /\ live = "open"
    /\ nops < MaxOps
    /\ lcd' = lcd
    /\ live' = live
    /\ Record(Rec("get_logo_size", 0, lcd, lcd, lcd_get_logo_size(lcd), NoBlit, {}))

NextLogo ==
    \/ OpenFb(LogoSetups)
    \/ OpenStb(LogoPanels)
    \/ GetLogoSize

SpecLogo == Init /\ [][NextLogo]_vars

----------------------------------------------------------------------------
(* Drawing a character over a saved background and clearing its row, as     *)
(* state_print_msg and state_print_url do (recovery-ui.c:316-401): the       *)
(* cursor is placed on the display, the background is saved, a character is  *)
(* drawn and lcd_clear(font_height) is called on the row it was drawn in.    *)

RestoreSetups ==
    {Setup(hw, f, TRUE) : hw \in SmallModes, f \in 0..7}
    \cup {Setup(hw, 0, FALSE) : hw \in SmallModes}

\* logical columns and rows on the display
RestoreCols(L) == {0, lcd_width(L) - 1}

RestoreRows(L) == {0, 1, lcd_height(L) - 1}

RestoreSetX ==
    /\ live = "open"
    /\ nops = 0
    /\ \E x \in RestoreCols(lcd) : lcd' = lcd_set_x(lcd, x)
    /\ UNCHANGED <<live, call, prev, trail, nops, os, ui>>

RestoreSetY ==
    /\ live = "open"
    /\ nops = 0
    /\ \E y \in RestoreRows(lcd) : lcd' = lcd_set_y(lcd, y)
    /\ UNCHANGED <<live, call, prev, trail, nops, os, ui>>

RestoreSave ==
    /\ live = "open"
    /\ nops = 0
    /\ Saved

RestorePutc ==
    /\ live = "open"
    /\ trail[3] = "save_background"
    /\ \E c \in Chars : Drawn("putc", c, lcd_putc(lcd, c))

RestoreClear ==
    /\ live = "open"
    /\ trail[3] = "putc"
    /\ Cleared(lcd_font_height(lcd))

NextRestore ==
    \/ OpenFb(RestoreSetups)
    \/ RestoreSetX
    \/ RestoreSetY
    \/ RestoreSave
    \/ RestorePutc
    \/ RestoreClear

SpecRestore == Init /\ [][NextRestore]_vars

----------------------------------------------------------------------------
(* Presenting the buffer: lcd_update on mapped and private buffers, with     *)
(* every outcome of write().                                                 *)

MaxUpdates == 2

UpdateSetups ==
    {Setup(hw, 0, m) : hw \in {Rgb565(2, 2, 4), Gray4(4, 2, 2)}, m \in BOOLEAN}

UpdatePanels == { Panel(4, 2, 4, <<>>), Panel(2, 1, 16, <<>>) }

\* what write(fd, data, size) may return: an error, nothing, a part, all
WriteResults(L) == {-1, 0, L.size - 1, L.size}

Update ==
    /\ live = "open"
    /\ nops < MaxUpdates
    /\ \E ret \in WriteResults(lcd), ndebug \in BOOLEAN :
          LET r == lcd_update(lcd, ret, ndebug)
          IN  /\ lcd' = lcd
              /\ live' = IF r.abort THEN "aborted" ELSE "open"
              /\ Record(Rec("update", [ret |-> ret, ndebug |-> ndebug], lcd, lcd,
                            [value |-> r.value, writes |-> r.writes], NoBlit, {}))

NextUpdate ==
    \/ OpenFb(UpdateSetups)
    \/ OpenStb(UpdatePanels)
    \/ Update

SpecUpdate == Init /\ [][NextUpdate]_vars

----------------------------------------------------------------------------
(* Life of a handle: display_open with every step that can fail, and         *)
(* lcd_release (state_init and state_exit, recovery-ui.c:247-411).           *)

MaxLife == 2

LifeSetups ==
    {Setup(hw, 0, m) : hw \in {Rgb565(2, 2, 4), Gray4(4, 2, 2)}, m \in BOOLEAN}

LifePanels == { Panel(4, 2, 4, <<>>), Panel(2, 1, 16, <<>>) }

\* the elements of a sequence
Range(seq) == {seq[i] : i \in DOMAIN seq}

\* what is held after another open: descriptors and blocks add up
Hold(held, more) ==
    [fds |-> held.fds \cup more.fds, mapped |-> held.mapped + more.mapped,
     heap |-> held.heap \cup more.heap]

\* the outcome of display_open: a handle L, or none when a step failed
Opened(arg, fail, L, more) ==
    /\ lcd' = IF fail = "none" THEN L ELSE NoLcd
    /\ live' = IF fail = "none" THEN "open" ELSE "absent"
    /\ os' = Hold(os, more)
    /\ Note(Rec("open", arg, lcd, lcd', 0, NoBlit, {}))
    /\ UNCHANGED ui

\* display_open(DISPLAY_TYPE_HDMI), and display_open(DISPLAY_TYPE_OLED) where
\* only /dev/fb3 is there
TryOpenFb ==
    /\ live = "absent"
    /\ nops < MaxLife
    /\ \E s \in LifeSetups, screens \in {1, 2},
          fail \in {"none"} \cup Range(FbSteps) \cup Range(HdmiSteps) :
          LET rows == screens * s.hw.yres IN
          /\ fail \in Range(HdmiSteps) => s.mapped
          /\ Opened([fail |-> fail, rows |-> rows], fail,
                    display_open(IF s.mapped THEN "HDMI" ELSE "OLED",
                                 fbdev_open(s.hw, s.flags, s.mapped, 1)),
                    IF fail \in Range(HdmiSteps) THEN NoResources
                    ELSE fbdev_open_held(s.hw, rows, s.mapped, fail))

\* display_open(DISPLAY_TYPE_OLED) with /dev/dbox/oled0 or /dev/dbox/lcd0, or
\* with no device at all ("access")
TryOpenStb ==
    /\ live = "absent"
    /\ nops < MaxLife
    /\ \E cfg \in LifePanels, fail \in {"none", "access", "open", "lcd"} :
          Opened([fail |-> fail, rows |-> cfg.yres], fail,
                 display_open("OLED", stb_lcd_open(cfg, 1)),
                 stb_lcd_open_held(fail))

Release ==
    /\ live = "open"
    /\ lcd' = NoLcd
    /\ live' = "absent"
    /\ os' = lcd_release(os)
    /\ Note(Rec("release", 0, lcd, lcd', 0, NoBlit, {}))
    /\ UNCHANGED ui

NextLife ==
    \/ TryOpenFb
    \/ TryOpenStb
    \/ Release

SpecLife == Init /\ [][NextLife]_vars

----------------------------------------------------------------------------
(* Clearing a row with the cursor away from the origin, on the 400 x 240     *)
(* panel at 16 bits and on the small framebuffers, in every orientation.     *)

MaxClears == 1

ClearSetups ==
    {Setup(Rgb565(400, 240, 800), f, FALSE) : f \in {0, LCD_REVERSE_X}}
    \cup {Setup(hw, f, TRUE) : hw \in SmallModes, f \in 0..7}

\* the column and the row the cursor is put at (physical x and y under axis
\* inversion are the row and the column)
ClearAt(L) == IF L.width = 400 THEN {10} ELSE {1}

ClearSetX ==
    /\ live = "open"
    /\ nops = 0
    /\ \E x \in ClearAt(lcd) : lcd' = lcd_set_x(lcd, x)
    /\ UNCHANGED <<live, call, prev, trail, nops, os, ui>>

ClearSetY ==
    /\ live = "open"
    /\ nops = 0
    /\ \E y \in ClearAt(lcd) : lcd' = lcd_set_y(lcd, y)
    /\ UNCHANGED <<live, call, prev, trail, nops, os, ui>>

ClearRow ==
    /\ live = "open"
    /\ nops < MaxClears
    /\ Cleared(1)

NextClear ==
    \/ OpenFb(ClearSetups)
    \/ ClearSetX
    \/ ClearSetY
    \/ ClearRow

SpecClear == Init /\ [][NextClear]_vars

----------------------------------------------------------------------------
(* Writing the logo and drawing a character on framebuffers of every depth,  *)
(* with and without row padding, at scale factors 1 and 2; the transform     *)
(* flags are 0 as display_open passes them.                                  *)

MaxLogos == 1

WriteSetups ==
    {Setup(hw, 0, TRUE) :
        hw \in { Rgb565(97, 8, 194), Rgb565(97, 8, 195), Rgb565(97, 8, 196),
                 Argb8888(96, 7, 384), Argb8888(97, 8, 392),
                 Rgb565(192, 120, 384),
                 Gray8(96, 7, 96), Gray4(100, 8, 50), Rgb565(7, 9, 14) }}

WriteCols == {1, 2}

WriteRows == {1}

WriteSetX ==
    /\ live = "open"
    /\ nops = 0
    /\ \E x \in WriteCols : lcd' = lcd_set_x(lcd, x)
    /\ UNCHANGED <<live, call, prev, trail, nops, os, ui>>

WriteSetY ==
    /\ live = "open"
    /\ nops = 0
    /\ \E y \in WriteRows : lcd' = lcd_set_y(lcd, y)
    /\ UNCHANGED <<live, call, prev, trail, nops, os, ui>>

\* lcd_write_logo(lcd); a memcpy that leaves the buffer is undefined
WriteLogo ==
    /\ live = "open"
    /\ nops < MaxLogos
    /\ LET r == lcd_write_logo(lcd)
       IN  /\ live' = IF r.acc \subseteq 0..(lcd.size - 1) THEN "open" ELSE "fault"
           /\ lcd' = r.lcd
           /\ Record(Rec("write_logo", 0, lcd, r.lcd, 0, NoBlit, r.acc))

WritePutc ==
    /\ live = "open"
    /\ nops < MaxLogos
    /\ \E c \in Chars : Drawn("putc", c, lcd_putc(lcd, c))

NextWrite ==
    \/ OpenFb(WriteSetups)
    \/ WriteSetX
    \/ WriteSetY
    \/ WriteLogo
    \/ WritePutc

SpecWrite == Init /\ [][NextWrite]_vars

----------------------------------------------------------------------------
(* The address line of recovery-ui.c on a small OLED panel: state_init, then     *)
(* state_print_url whenever the address was read again and whenever the      *)
(* timer of the display expires.  ui.count and ui.incr are st->count and     *)
(* st->incr, ui.timer the time the timer of the display is set to (0: not    *)
(* armed), ui.family and ui.host the address main holds.  Every write of     *)
(* lcd_update succeeds.                                                      *)

\* "RESCUE MODE" and the terminating 0
rescue_mode == <<82, 69, 83, 67, 85, 69, 32, 77, 79, 68, 69, 0>>

\* the handle after lcd_clear(lcd, lines)
lcd_cleared(L, lines) == [L EXCEPT !.data = lcd_clear(L, lines).data]

\* state_init(st, type) once display_open and timer_add succeeded, D the
\* handle of display_open: the handle it leaves.  The differences are size_t
\* and the arguments of lcd_set_x and lcd_set_y are int: a negative
\* difference d halved as a 64-bit unsigned number and cut to 32 bits is the
\* int floor(d / 2), which is d \div 2 here.
state_init(type, D) ==
    LET width   == lcd_width(D)
        height  == lcd_height(D)
        oled    == type = "OLED"
        top0    == IF oled THEN 16 ELSE (height * 7) \div 100
        bottom0 == IF oled THEN 0 ELSE top0
        L1      == lcd_cleared(D, height)
        logo    == lcd_get_logo_size(L1)
        top     == IF logo[2] = height THEN 0 ELSE top0
        bottom  == IF logo[2] = height THEN 0 ELSE bottom0
        L2      == lcd_set_y(lcd_set_x(L1, (width - logo[1]) \div 2), top)
        L3      == lcd_write_logo(L2).lcd
        L4      == lcd_save_background(L3)
        L5      == lcd_set_fgcolor(L4, -11776)
        L6      == lcd_set_y(lcd_set_x(L5, (width - 11 * lcd_font_width(D)) \div 2),
                             height - lcd_font_height(D) * 4 - bottom)
        L7      == lcd_puts(L6, rescue_mode, {}).lcd
    IN  lcd_set_y(L7, height - lcd_font_height(D) * 2 - bottom)

\* "http://%s/" and "http://[%s]/" with the terminating 0
url(family, host) ==
    IF family = "AF_INET6"
    THEN <<104, 116, 116, 112, 58, 47, 47, 91>> \o host \o <<93, 47, 0>>
    ELSE <<104, 116, 116, 112, 58, 47, 47>> \o host \o <<47, 0>>

\* state_print_url(st, family, host) on the handle L with the scroll state u:
\* the handle, the scroll state, the bytes written, whether the clear stayed
\* inside the buffers, and what was shown (the column given to lcd_set_x,
\* the count it was derived from, extra_pixels, st->incr before and after)
state_print_url(L, u, family, host) ==
    LET hostlen      == Len(host) + 8 + (IF family = "AF_INET6" THEN 2 ELSE 0)
        width        == lcd_width(L)
        font_width   == lcd_font_width(L)
        max_chars    == width \div font_width
        fits         == hostlen <= max_chars
        extra_pixels == hostlen * font_width - width
        reset        == u.count < 0 \/ u.count > extra_pixels
        count        == IF reset THEN 0 ELSE u.count
        incr0        == IF reset THEN -1 ELSE u.incr
        incr         == IF count = 0 \/ count = extra_pixels THEN -incr0 ELSE incr0
        x            == IF fits THEN (width - hostlen * font_width) \div 2 ELSE -count
        L1           == lcd_set_x(L, x)
        b            == lcd_clear(L1, lcd_font_height(L))
        p            == lcd_puts([L1 EXCEPT !.data = b.data], url(family, host), {})
    IN  [lcd    |-> p.lcd,
         ui     |-> IF fits THEN [u EXCEPT !.timer = 0]
                    ELSE [u EXCEPT !.timer = 100, !.count = count + incr, !.incr = incr],
         acc    |-> p.acc,
         inside |-> b.inside,
         shown  |-> [scroll |-> ~fits, x |-> x, count |-> count,
                     extra_pixels |-> extra_pixels,
                     incr0 |-> u.incr, incr1 |-> IF fits THEN u.incr ELSE incr]]

\* a call made from the loop of main is recorded; the calls are not counted
Logged(r) ==
    /\ call' = r
    /\ prev' = call
    /\ trail' = <<trail[2], trail[3], r.name>>
    /\ UNCHANGED nops

ScrollPanels == { Panel(52, 16, 4, <<>>) }

\* addresses: one that fits the 8 characters of the panel, and two that
\* are 1 and 2 characters too long
Host(n) == [i \in 1..n |-> 49]

Addresses ==
    { [family |-> "AF_INET", host |-> Host(0)],
      [family |-> "AF_INET", host |-> Host(1)],
      [family |-> "AF_INET6", host |-> Host(0)] }

\* state_init(&state[DISPLAY_TYPE_OLED], DISPLAY_TYPE_OLED)
StateInit ==
    /\ live = "absent"
    /\ \E cfg \in ScrollPanels, image \in Images :
          lcd' = state_init("OLED", display_open("OLED", stb_lcd_open(cfg, image)))
    /\ os' = stb_lcd_open_held("none")
    /\ ui' = [ui EXCEPT !.count = 0, !.incr = -1]
    /\ live' = "open"
    /\ UNCHANGED <<call, prev, trail, nops>>

PrintedUrl(family, host) ==
    \E r \in {state_print_url(lcd, ui, family, host)} :
        /\ lcd_update(r.lcd, r.lcd.size, FALSE).value
        /\ lcd' = r.lcd
        /\ ui' = [r.ui EXCEPT !.family = family, !.host = host]
        /\ live' = IF r.inside /\ r.acc \subseteq 0..(lcd.size - 1) THEN "open" ELSE "fault"
        /\ Logged(Rec("print_url", [family |-> family, host |-> host],
                      lcd, r.lcd, r.shown, NoBlit, r.acc))
        /\ UNCHANGED os

\* main, if (update): read_ifaddr found an address
AddressRead ==
    /\ live = "open"
    /\ \E a \in Addresses : PrintedUrl(a.family, a.host)

\* main, the timer of the display expired
TimerExpired ==
    /\ live = "open"
    /\ ui.timer > 0
    /\ PrintedUrl(ui.family, ui.host)

NextScroll ==
    \/ StateInit
    \/ AddressRead
    \/ TimerExpired

SpecScroll == Init /\ [][NextScroll]_vars

\* the timer of the display is armed
Armed == live = "open" /\ ui.timer > 0

\* an armed timer expires: WF_vars(TimerExpired) written out.  TimerExpired
\* is enabled exactly when the timer is armed, and it changes ui.count.
SpecScrollFair == SpecScroll /\ ([]<>(~Armed) \/ []<><<TimerExpired>>_vars)

----------------------------------------------------------------------------
(* The command FIFO of main (recovery-ui.c:550-583) with one display opened. *)
(* ui.linebuf holds linebuf[0..pos-1], ui.pos is pos, ui.last is the byte    *)
(* linebuf[sizeof(linebuf) - 1], which no read reaches and which is          *)
(* indeterminate until the terminator is written there.  ui.stream (the      *)
(* bytes the reads returned since the FIFO was opened) and ui.delivered (the *)
(* arguments of state_print_msg, in order) record what happened, ui.dropped  *)
(* whether linebuf was replaced by "...".  The array has LinebufSize bytes   *)
(* here instead of 1024.  The timer of main, which the handler sets to 30 s  *)
(* when the read loop ends, is not part of the state.                        *)

LinebufSize == 5

MaxBytes == 5

NEWLINE == 10

\* the bytes a writer sends
Bytes == {97, NEWLINE}

\* what read() may return when asked for at most n bytes: 1..n bytes
RECURSIVE Chunks(_)
Chunks(n) ==
    IF n <= 0 THEN {}
    ELSE {<<b>> : b \in Bytes}
         \cup {<<b>> \o c : b \in Bytes, c \in Chunks(n - 1)}

\* strsep(&s, "\n") repeated over a string: the tokens before each newline
RECURSIVE Tokens(_, _)
Tokens(str, token) ==
    IF str = <<>> THEN <<>>
    ELSE IF Head(str) = NEWLINE THEN <<token>> \o Tokens(Tail(str), <<>>)
    ELSE Tokens(Tail(str), Append(token, Head(str)))

\* the last token, which no newline ends
RECURSIVE Rest(_, _)
Rest(str, token) ==
    IF str = <<>> THEN token
    ELSE IF Head(str) = NEWLINE THEN Rest(Tail(str), <<>>)
    ELSE Rest(Tail(str), Append(token, Head(str)))

\* state_print_msg(st, msg) on an opened display; every write of lcd_update
\* succeeds
state_print_msg(L, msg) ==
    LET width     == lcd_width(L)
        max_chars == width \div lcd_font_width(L)
        L1        == lcd_cleared(L, lcd_font_height(L))
        keep      == IF max_chars - 3 < 0 THEN Len(msg) ELSE max_chars - 3
    IN  IF Len(msg) > max_chars
        THEN lcd_puts(lcd_set_x(L1, 0),
                      SubSeq(msg, 1, IF keep < Len(msg) THEN keep ELSE Len(msg))
                          \o <<46, 46, 46, 0>>, {}).lcd
        ELSE lcd_puts(lcd_set_x(L1, (width - Len(msg) * lcd_font_width(L)) \div 2),
                      msg \o <<0>>, {}).lcd

\* for each token: state_print_msg(&state[type], p)
RECURSIVE print_all(_, _)
print_all(L, msgs) ==
    IF msgs = <<>> THEN L ELSE print_all(state_print_msg(L, Head(msgs)), Tail(msgs))

\* one turn of the read loop with read() returning the bytes of chunk
\* (ret > 0), when linebuf[pos] was seen to be a newline or another byte
fifo_read(L, u, chunk, seen) ==
    LET buf  == u.linebuf \o chunk
        pos  == u.pos + Len(chunk)
        full == pos + 1 = LinebufSize
    IN  IF full /\ seen # "newline"
        THEN [lcd |-> L,
              ui  |-> [u EXCEPT !.linebuf = <<46, 46, 46>>, !.pos = 3,
                                !.stream = @ \o chunk, !.dropped = TRUE]]
        ELSE [lcd |-> print_all(L, Tokens(buf, <<>>)),
              ui  |-> [u EXCEPT !.linebuf = Rest(buf, <<>>),
                                !.pos = Len(Rest(buf, <<>>)),
                                !.last = IF full THEN "NUL" ELSE @,
                                !.stream = @ \o chunk,
                                !.delivered = @ \o Tokens(buf, <<>>)]]

\* ret > 0
FifoRead ==
    /\ live = "open"
    /\ \E chunk \in Chunks(LinebufSize - ui.pos - 1),
          seen \in (IF ui.last = "indeterminate" THEN {"newline", "other"} ELSE {"other"}) :
          /\ Len(ui.stream) + Len(chunk) <= MaxBytes
          /\ \E r \in {fifo_read(lcd, ui, chunk, seen)} :
                 /\ lcd' = r.lcd
                 /\ ui' = r.ui
    /\ UNCHANGED <<live, call, prev, trail, nops, os>>

\* ret == 0: every writer closed the FIFO, or no room was left to read into;
\* the FIFO is opened again and what was kept is dropped
FifoEof ==
    /\ live = "open"
    /\ ui.stream # <<>>
    /\ ui' = [ui EXCEPT !.pos = 0, !.linebuf = <<>>, !.stream = <<>>,
                         !.delivered = <<>>, !.dropped = FALSE]
    /\ UNCHANGED <<lcd, live, call, prev, trail, nops, os>>

NextFifo ==
    \/ StateInit
    \/ FifoRead
    \/ FifoEof

SpecFifo == Init /\ [][NextFifo]_vars

----------------------------------------------------------------------------
(* What the claims speak of *)

Inverted == HasFlag(lcd, LCD_INV_AXIS)

\* the logical cursor before and after the last call
LogX0 == IF Inverted THEN call.y0 ELSE call.x0
LogY0 == IF Inverted THEN call.x0 ELSE call.y0
LogX1 == IF Inverted THEN call.y1 ELSE call.x1
LogY1 == IF Inverted THEN call.x1 ELSE call.y1

\* the font cell of the open display
CellW == 6 * (1 + (lcd.height + 120) \div 240)
CellH == 8 * (1 + (lcd.height + 120) \div 240)

\* the cursor (lcd->x, lcd->y) at glyph column col and glyph row `row` of the
\* n-th character drawn by the last call
GlyphPos(n, col, row) ==
    IF Inverted
    THEN [x |-> call.x0 + row, y |-> call.y0 + n * CellW + col]
    ELSE [x |-> call.x0 + n * CellW + col, y |-> call.y0 + row]

OnDisplay(p) == p.x >= 0 /\ p.x < lcd.width /\ p.y >= 0 /\ p.y < lcd.height

\* the place in the buffer of cursor position p
Phys(p) ==
    [x |-> IF HasFlag(lcd, LCD_REVERSE_X) THEN lcd.width - p.x - 1 ELSE p.x,
     y |-> IF HasFlag(lcd, LCD_REVERSE_Y) THEN lcd.height - p.y - 1 ELSE p.y]

\* the bytes that hold the pixel at buffer position q
PixelBytes(q) ==
    LET first == q.y * lcd.stride + (q.x * lcd.bpp) \div 8
    IN  IF lcd.bpp < 8 THEN {first} ELSE {first + j : j \in 0..(lcd.bpp \div 8 - 1)}

\* number of characters drawn by the last call
Drawn0 == IF call.name = "puts" THEN Len(call.arg) - 1 ELSE 1

\* the bytes of the pixels of the glyphs of the last call that are on the display
GlyphBytes ==
    UNION { PixelBytes(Phys(GlyphPos(n, col, row))) :
              <<n, col, row>> \in { t \in (0..(Drawn0 - 1)) \X (0..(CellW - 1)) \X (0..(CellH - 1)) :
                                     OnDisplay(GlyphPos(t[1], t[2], t[3])) } }

IsDraw == call.name \in {"putc", "puts"}

(* C5: lcd_putc moves the logical cursor right by exactly the font width     *)
(* (6 where the scale factor is 1) and leaves the logical row alone, for     *)
(* every depth, orientation and starting cursor, whether the glyph is        *)
(* visible, clipped or off the display; lcd_puts of n characters moves it    *)
(* by n font widths.                                                         *)
C5_CursorAdvance ==
    (IsDraw /\ live = "open") =>
        /\ LogX1 = LogX0 + Drawn0 * lcd_font_width(lcd)
        /\ LogY1 = LogY0
        /\ (lcd.height < 120 => LogX1 = LogX0 + Drawn0 * 6)

\* a glyph entirely off an axis-inverted display, and the cursor moved on
C5_Witness ==
    /\ call.name = "putc" /\ live = "open"
    /\ Inverted /\ call.acc = {} /\ ~OnDisplay(GlyphPos(0, 0, 0))
    /\ LogX1 = LogX0 + CellW

(* C6: whatever the cursor, the orientation and the depth, on a display      *)
(* with stride >= width * bpp / 8, every byte lcd_putc and lcd_puts read or  *)
(* write lies inside [0, size), only bytes of glyph pixels that are on the   *)
(* display change, and no error is raised.                                   *)
C6_RasterInBounds ==
    (IsDraw /\ lcd.stride >= (lcd.width * lcd.bpp) \div 8) =>
        LET glyph == GlyphBytes
        IN  /\ live = "open"
            /\ call.acc \subseteq 0..(lcd.size - 1)
            /\ call.acc = glyph
            /\ \A i \in (0..(lcd.size - 1)) \ glyph : lcd.data[i] = call.data0[i]

\* the columns (under axis inversion) or rows the last lcd_clear was asked for
\* start at `from` and there are call.arg of them, on an axis `extent` long
ClearFrom == call.x0 * (IF Inverted THEN 1 ELSE 0) + call.y0 * (IF Inverted THEN 0 ELSE 1)
ClearExtent == IF Inverted THEN lcd.width ELSE lcd.height

(* C2: wherever the cursor is and whatever the orientation, the rectangle    *)
(* lcd_clear copies is clipped to the display and every byte it copies lies  *)
(* inside [0, size) of the pixel buffer.                                     *)
C2_ClearInBounds ==
    call.name = "clear" =>
        /\ live = "open"
        /\ \A m \in call.blit.copies : m.off >= 0 /\ m.len >= 0 /\ m.off + m.len <= lcd.size
        /\ call.blit.copies # {} =>
              LET r == call.blit.rect
              IN  /\ r.x >= 0 /\ r.width >= 0 /\ r.x + r.width <= lcd.width
                  /\ r.y >= 0 /\ r.height >= 0 /\ r.y + r.height <= lcd.height

(* C9: lcd_clear changes no pixel when the rows (columns under axis          *)
(* inversion) it is asked for lie entirely off the display, that is when     *)
(* they end at or before 0 or start at or after the extent of the display.   *)
C9_ClearOutsideNoop ==
    (call.name = "clear" /\ (ClearFrom + call.arg <= 0 \/ ClearFrom >= ClearExtent))
        => lcd.data = call.data0

\* the pixel at buffer position q of a buffer: a nibble (the high one for even
\* x), or the bytes of the pixel, least significant first
PixelOf(buf, q) ==
    LET first == q.y * lcd.stride + (q.x * lcd.bpp) \div 8
    IN  IF lcd.bpp = 4
        THEN <<IF q.x % 2 = 0 THEN buf[first] \div 16 ELSE buf[first] % 16>>
        ELSE [j \in 1..(lcd.bpp \div 8) |-> buf[first + j - 1]]

\* the foreground pixel: an all-ones nibble, or the low bytes of fgcolor
Foreground ==
    IF lcd.bpp = 4 THEN <<15>>
    ELSE [j \in 1..(lcd.bpp \div 8) |-> ByteOf(lcd.fgcolor, j - 1)]

\* the background pixel at q: a cleared nibble, or the saved pixel
Background(q) == IF lcd.bpp = 4 THEN <<0>> ELSE PixelOf(lcd.background, q)

ScaleOf == 1 + (lcd.height + 120) \div 240

(* C7: after lcd_putc(c), every pixel of the glyph that is on the display    *)
(* holds the foreground value if bit (row div s) of font byte                *)
(* lcdfont[6 c + col div s] is set and the background pixel otherwise, for   *)
(* every depth and every scale factor s = 1 + (height + 120) / 240.          *)
C7_GlyphPixels ==
    (call.name = "putc" /\ live = "open") =>
        \A col \in 0..(6 * ScaleOf - 1), row \in 0..(8 * ScaleOf - 1) :
            LET p == GlyphPos(0, col, row)
                set == Bit(lcdfont(6 * call.arg + col \div ScaleOf), row \div ScaleOf) = 1
            IN  OnDisplay(p) =>
                    PixelOf(lcd.data, Phys(p)) =
                        IF set THEN Foreground ELSE Background(Phys(p))

\* the last three calls were lcd_save_background, lcd_putc with the cursor on
\* the display, and lcd_clear(font_height) with the cursor on the same row
\* (column of the buffer under axis inversion)
DrawThenClear ==
    /\ trail = <<"save_background", "putc", "clear">>
    /\ call.arg = CellH
    /\ OnDisplay([x |-> prev.x0, y |-> prev.y0])
    /\ IF Inverted THEN call.x0 = prev.x0 ELSE call.y0 = prev.y0

(* C1: for every depth, orientation and cursor on the display, after         *)
(* lcd_save_background, lcd_putc followed by lcd_clear(font_height) on the   *)
(* same row leaves the pixel buffer as it was before lcd_putc.               *)
C1_DrawClearRestores ==
    DrawThenClear => (live = "open" /\ lcd.data = prev.data0)

\* the last call was lcd_seek(offset, whence); the pixel count of the offset,
\* the cursor it was counted from and the linear position t it led to
IsSeek == call.name = "seek"
SeekPixels == cdiv(call.arg[1] * 8, lcd.bpp)
SeekFromX == IF call.arg[2] = SEEK_CUR THEN call.x0 ELSE 0
SeekFromY == IF call.arg[2] = SEEK_SET THEN 0
             ELSE IF call.arg[2] = SEEK_END THEN lcd.height ELSE call.y0
SeekTotal == SeekFromY * lcd.width + SeekFromX + SeekPixels

\* the cursor re-derived from a returned byte offset p
Rederived(p) == <<((p % lcd.stride) * 8) \div lcd.bpp, p \div lcd.stride>>

IsColor == call.name = "set_fgcolor"

\* the channels of the open display with the bit of the ARGB value each
\* component starts at
Channels == { <<lcd.alpha, 24>>, <<lcd.red, 16>>, <<lcd.green, 8>>, <<lcd.blue, 0>> }

\* the field of a native colour v that a channel names
Decoded(v, ch) == (v \div (2 ^ ch.offset)) % (2 ^ ch.size)

\* the top ch.size bits of the 8-bit component of argb that starts at bit sh
Truncated(argb, sh, ch) == ((argb \div (2 ^ sh)) % 256) \div (2 ^ (8 - ch.size))

\* the last two calls were lcd_set_fgcolor with the same value
Repeated == IsColor /\ prev.name = "set_fgcolor" /\ prev.arg = call.arg

\* bits of the native colour named by more than one channel
Overlapping ==
    \E c, d \in Channels :
        /\ c # d /\ c[1].size > 0 /\ d[1].size > 0
        /\ c[1].offset < d[1].offset + d[1].size
        /\ d[1].offset < c[1].offset + c[1].size

(* C8 as stated: lcd_set_fgcolor called twice with the same ARGB value       *)
(* gives the same native colour, and decoding the native colour with the     *)
(* channel offsets and widths of the display gives each of A, R, G, B        *)
(* truncated to the width of its channel, for every format a display can be  *)
(* opened with, byte-swapped 16-bit formats included.                        *)
C8_ColorRoundTrip ==
    /\ Repeated => lcd.fgcolor = call.fg0
    /\ IsColor =>
          \A c \in Channels : Decoded(lcd.fgcolor, c[1]) = Truncated(call.arg, c[2], c[1])

\* the native colour with the byte swap of a swapped 16-bit format undone
HostOrder(v) == IF lcd.byteswap /\ lcd.bpp = 16 THEN bswap_16(v) ELSE v

(* C8 amended: the second call gives the same native colour; and where no    *)
(* two channels share a bit, decoding the native colour, after undoing the   *)
(* byte swap of a swapped 16-bit format, gives each component truncated to   *)
(* the width of its channel.                                                 *)
C8_ColorRoundTripHostOrder ==
    /\ Repeated => lcd.fgcolor = call.fg0
    /\ (IsColor /\ ~Overlapping) =>
          \A c \in Channels :
             Decoded(HostOrder(lcd.fgcolor), c[1]) = Truncated(call.arg, c[2], c[1])

\* 0x00ff0000 set twice on an RGB_565_BE panel: red is the low five bits, and
\* the two bytes are exchanged
C8_Witness ==
    /\ Repeated /\ lcd.byteswap /\ lcd.bpp = 16
    /\ call.arg = 16711680 /\ lcd.fgcolor = 7936

\* the sizes lcd_get_logo_size may report for the logo display_open chose:
\* the pixel dimensions of the asset, or for the 96 x 7 bitmap the size it is
\* drawn at
LogoDims ==
    IF lcd.logo = "none" THEN {<<0, 0>>}
    ELSE IF lcd.logo = "lcdlogo_128x8_gray4" THEN {<<128, 8>>}
    ELSE IF lcd.logo = "lcdlogo_400x240_rgb565" THEN {<<400, 240>>}
    ELSE {<<96, 7>>, <<96 * ScaleOf, 7 * ScaleOf>>}

(* C10: lcd_get_logo_size returns (0, 0) on every display for which          *)
(* display_open chose no logo, and otherwise the dimensions of the logo      *)
(* display_open chose.                                                       *)
C10_LogoSize ==
    call.name = "get_logo_size" => call.ret \in LogoDims

(* C11: lcd_update on a display that is not mapped issues exactly one write *)
(* of `size` bytes, returns true when all of them were written and false,    *)
(* with the process still running, when the write failed or was short; on a  *)
(* mapped framebuffer it issues no write and returns true.                   *)
C11_UpdateReportsFailure ==
    call.name = "update" =>
        /\ live = "open"
        /\ IF lcd.mapped
           THEN call.ret = [value |-> TRUE, writes |-> <<>>]
           ELSE call.ret = [value |-> (call.arg.ret = lcd.size), writes |-> <<lcd.size>>]

(* C12: whenever no handle is live -- display_open returned none because a  *)
(* step failed, or the handle was released -- everything acquired for the    *)
(* display has been given back: the descriptor is closed, the whole mapping  *)
(* is unmapped or the private buffer freed, and the handle is freed.         *)
C12_NothingHeldWithoutHandle ==
    live = "absent" => os = NoResources

\* the logical positions of the cells of the glyph drawn by the last lcd_putc
LogicalCells ==
    {[x |-> LogX0 + col, y |-> LogY0 + row] : col \in 0..(CellW - 1), row \in 0..(CellH - 1)}

\* reverse the logical coordinates, then exchange the axes
ReverseThenSwap(l) ==
    LET rx == IF HasFlag(lcd, LCD_REVERSE_X) THEN lcd_width(lcd) - l.x - 1 ELSE l.x
        ry == IF HasFlag(lcd, LCD_REVERSE_Y) THEN lcd_height(lcd) - l.y - 1 ELSE l.y
    IN  IF Inverted THEN [x |-> ry, y |-> rx] ELSE [x |-> rx, y |-> ry]

\* exchange the axes, then reverse the coordinates of the buffer
SwapThenReverse(l) ==
    LET q == IF Inverted THEN [x |-> l.y, y |-> l.x] ELSE l
    IN  [x |-> IF HasFlag(lcd, LCD_REVERSE_X) THEN lcd.width - q.x - 1 ELSE q.x,
         y |-> IF HasFlag(lcd, LCD_REVERSE_Y) THEN lcd.height - q.y - 1 ELSE q.y]

\* the bytes of the pixels at the buffer positions Q that are in the buffer
BytesOf(Q) == UNION { PixelBytes(q) : q \in { r \in Q : OnDisplay(r) } }

\* lcd_width and lcd_height are the width and height of the buffer, exchanged
\* exactly under axis inversion
ExtentsSwapped ==
    /\ lcd_width(lcd) = (IF Inverted THEN lcd.height ELSE lcd.width)
    /\ lcd_height(lcd) = (IF Inverted THEN lcd.width ELSE lcd.height)

(* C13 as stated: for every orientation and logical cursor set by lcd_set_x  *)
(* and lcd_set_y, the position the rasterizer addresses for a logical        *)
(* position is found by reversing the logical coordinates (length - logical  *)
(* - 1) and then exchanging the axes under axis inversion; lcd_width and     *)
(* lcd_height are exchanged exactly under axis inversion.                    *)
C13_ReverseThenSwap ==
    (call.name = "putc" /\ live = "open") =>
        /\ call.acc = BytesOf({ReverseThenSwap(l) : l \in LogicalCells})
        /\ ExtentsSwapped

(* C13 amended: the axes are exchanged first (lcd_set_x stores the logical   *)
(* column in the row of the buffer under axis inversion) and reverse-x and   *)
(* reverse-y are then applied to the coordinates of the buffer, as width -   *)
(* x - 1 and height - y - 1.                                                 *)
C13_SwapThenReverse ==
    (call.name = "putc" /\ live = "open") =>
        /\ call.acc = BytesOf({SwapThenReverse(l) : l \in LogicalCells})
        /\ ExtentsSwapped

\* a glyph drawn on a display with the axes exchanged and only x reversed,
\* away from the origin
C13_Witness ==
    /\ call.name = "putc" /\ live = "open"
    /\ Inverted /\ HasFlag(lcd, LCD_REVERSE_X) /\ ~HasFlag(lcd, LCD_REVERSE_Y)
    /\ LogX0 > 0 /\ LogY0 > 0
    /\ call.acc # {}
    /\ call.acc = BytesOf({SwapThenReverse(l) : l \in LogicalCells})

\* the rectangle the last lcd_clear used after the reversal, before clipping
Reversed == call.blit.rect0

(* C14 as stated: under reverse-x the physical x origin of the rectangle of  *)
(* lcd_clear is display_width - logical_x - rect_width with logical_x the    *)
(* column of the cursor; on the 400 x 240 display at 16 bits with the axes   *)
(* upright and the cursor at (10, 10), lcd_clear(1) uses the x range         *)
(* [400 - 10 - width, 400 - 10) before clipping.                             *)
C14_ClearFromCursorColumn ==
    (call.name = "clear" /\ HasFlag(lcd, LCD_REVERSE_X)) =>
        LET logical_x == IF Inverted THEN call.y0 ELSE call.x0
        IN  /\ Reversed.x = lcd.width - logical_x - Reversed.width
            /\ Reversed.x + Reversed.width = lcd.width - logical_x

(* C14 amended: under reverse-x the physical x origin is display_width -     *)
(* rect_x - rect_width, where rect_x is 0 with the axes upright (the whole   *)
(* row is cleared, whatever the column of the cursor: on the 400 x 240       *)
(* display the x range is [0, 400)) and is lcd->x, the logical row, under    *)
(* axis inversion, the width then being the number of lines.                 *)
C14_ClearFromRowStart ==
    (call.name = "clear" /\ HasFlag(lcd, LCD_REVERSE_X)) =>
        IF Inverted
        THEN /\ Reversed.width = call.arg
             /\ Reversed.x = lcd.width - call.x0 - call.arg
        ELSE /\ Reversed.width = lcd.width
             /\ Reversed.x = 0
             /\ Reversed.y = (IF HasFlag(lcd, LCD_REVERSE_Y)
                              THEN lcd.height - call.y0 - call.arg ELSE call.y0)

\* a display at 16 bits with x reversed and the axes upright, the cursor away
\* from column 0, one row cleared: the rectangle spans the whole row
C14_Witness ==
    /\ call.name = "clear" /\ call.arg = 1
    /\ lcd.bpp = 16 /\ lcd.flags = LCD_REVERSE_X
    /\ call.x0 = 1 /\ call.y0 = 1
    /\ Reversed = [x |-> 0, y |-> 1, width |-> lcd.width, height |-> 1]
    /\ Reversed.x # lcd.width - call.x0 - Reversed.width
\* bit (col, row) of the 96 x 7 monochrome logo, rows of 12 bytes, the most
\* significant bit the leftmost pixel
LogoBit(col, row) ==
    Bit(logo_byte("lcdlogo_96x7_mono", (row * 96 + col) \div 8), 7 - ((row * 96 + col) % 8))

\* the last call was lcd_write_logo of the scaled monochrome logo, started at
\* an in-bounds cursor with room for the logo
ScaledLogoWritten ==
    /\ call.name = "write_logo"
    /\ lcd.bpp \in {16, 32}
    /\ ~(lcd.bpp = 16 /\ lcd.width = 400 /\ lcd.height = 240)
    /\ lcd.logo = "lcdlogo_96x7_mono"
    /\ lcd.flags = 0
    /\ call.x0 >= 0 /\ call.y0 >= 0
    /\ call.x0 + 96 * ScaleOf <= lcd.width
    /\ call.y0 + 7 * ScaleOf <= lcd.height

LogoPixels ==
    \A c \in 0..(96 * ScaleOf - 1), r \in 0..(7 * ScaleOf - 1) :
        PixelOf(lcd.data, [x |-> call.x0 + c, y |-> call.y0 + r]) =
            IF LogoBit(c \div ScaleOf, r \div ScaleOf) = 1
            THEN Foreground
            ELSE [j \in 1..(lcd.bpp \div 8) |-> 0]

\* the stride holds no more than a row of pixels and less than one pixel more
Unpadded == lcd.stride - (lcd.width * lcd.bpp) \div 8 < lcd.bpp \div 8

(* C15: for a 32bpp display or a 16bpp display other than 400x240, with any  *)
(* stride >= width*bpp/8, lcd_write_logo started at an in-bounds cursor      *)
(* (x0, y0) with room for the logo sets pixel (x0 + c, y0 + r) to the        *)
(* foreground colour where bit (c div s, r div s) of the logo is set and to  *)
(* 0 otherwise, writes nothing outside the buffer and leaves the cursor at   *)
(* (x0, y0 + 7s).                                                            *)
C15_LogoPixels ==
    ScaledLogoWritten =>
        /\ LogoPixels
        /\ live = "open" /\ call.acc \subseteq 0..(lcd.size - 1)
        /\ call.x1 = call.x0 /\ call.y1 = call.y0 + 7 * ScaleOf

\* the same, where the rows are not padded by a whole pixel or more
C15_LogoPixelsUnpadded == (ScaledLogoWritten /\ Unpadded) => C15_LogoPixels

\* the depth is none of 4, 16, 32, or no logo was selected for the geometry
Unrecognised ==
    \/ lcd.bpp \notin {4, 16, 32}
    \/ (call.name = "write_logo" /\ lcd.logo = "none")

(* C16: when a display whose depth is none of 4, 16, 32 (or whose depth and  *)
(* geometry match no recognised logo case) reaches lcd_putc or               *)
(* lcd_write_logo, the process aborts and the pixel buffer is not written.   *)
C16_UnknownDepthAborts ==
    (call.name \in {"putc", "write_logo"} /\ Unrecognised) =>
        /\ live = "aborted"
        /\ lcd.data = call.data0 /\ call.acc = {}

\* the same of lcd_putc alone
C16_PutcAborts ==
    (call.name = "putc" /\ Unrecognised) =>
        /\ live = "aborted"
        /\ lcd.data = call.data0 /\ call.acc = {}

\* the last call was state_print_url in scrolling mode
Scrolled(c) == c.name = "print_url" /\ c.ret.scroll

\* the offset given to lcd_set_x is -count with 0 <= count <= extra_pixels
C17_OffsetInRange ==
    Scrolled(call) =>
        /\ call.ret.x = -call.ret.count
        /\ call.ret.extra_pixels >= 1
        /\ 0 <= call.ret.count /\ call.ret.count <= call.ret.extra_pixels

\* two calls in a row with the same host: count changed by exactly 1
C17_StepsByOne ==
    (Scrolled(call) /\ Scrolled(prev) /\ call.arg = prev.arg) =>
        call.ret.count - prev.ret.count \in {-1, 1}

\* the direction changes only in a call that shows count 0 or extra_pixels
C17_TurnsAtEnds ==
    (Scrolled(call) /\ call.ret.incr1 # call.ret.incr0) =>
        call.ret.count \in {0, call.ret.extra_pixels}

(* C17: in scrolling mode state_print_url gives lcd_set_x the offset -count  *)
(* with 0 <= count <= extra_pixels of that call; with an unchanged host the  *)
(* count changes by exactly 1 from call to call, and the direction reverses  *)
(* only at 0 and at extra_pixels.                                            *)
C17_ScrollPingPong == C17_OffsetInRange /\ C17_StepsByOne /\ C17_TurnsAtEnds

\* when the host stays the same for ever, every offset in [0, extra_pixels]
\* is shown again and again
C17_EveryOffsetShown ==
    \A a \in Addresses :
        \A k \in 0..(2 * lcd_font_width([height |-> 16])) :
            (<>[](Scrolled(call) /\ call.arg = a /\ k <= call.ret.extra_pixels))
                => []<>(Scrolled(call) /\ call.ret.count = k)

\* every line of the stream, the unfinished one included, has at most
\* sizeof(linebuf) - 2 bytes
ShortLines ==
    /\ \A i \in 1..Len(Tokens(ui.stream, <<>>)) :
          Len(Tokens(ui.stream, <<>>)[i]) <= LinebufSize - 2
    /\ Len(Rest(ui.stream, <<>>)) <= LinebufSize - 2

\* 0 <= pos <= sizeof(linebuf) - 1, and a read never asks for bytes past it
C18_PosInBounds ==
    /\ 0 <= ui.pos /\ ui.pos <= LinebufSize - 1
    /\ ui.pos = Len(ui.linebuf)

(* C18: for reads delivering the byte stream in arbitrary chunks, every      *)
(* newline-terminated line of at most sizeof(linebuf) - 2 bytes is passed to *)
(* state_print_msg exactly once, in arrival order; the bytes after the last  *)
(* newline are kept at the start of linebuf; and 0 <= pos <=                 *)
(* sizeof(linebuf) - 1.                                                      *)
C18_LinesDeliveredOnce ==
    /\ C18_PosInBounds
    /\ ShortLines =>
          /\ ui.delivered = Tokens(ui.stream, <<>>)
          /\ ui.linebuf = Rest(ui.stream, <<>>)

\* the same while linebuf was not replaced by "..."
C18_LinesDeliveredUnlessDropped ==
    (ShortLines /\ ~ui.dropped) =>
        /\ ui.delivered = Tokens(ui.stream, <<>>)
        /\ ui.linebuf = Rest(ui.stream, <<>>)

====
